---------------------------- MODULE Spec2Model ----------------------------
(***************************************************************************)
(* Model of the SenseHat monitor: TargetTemperature (src/target_temp),     *)
(* Gatherer (src/data_gatherer, the metrics engine and the logger thread)  *)
(* and Manager (src/manager, the joystick/screen loop).                    *)
(*                                                                         *)
(* Temperatures are kept in half-degree units (the UI changes the target   *)
(* in steps of 0.5): 24 degrees is 48.  Floats that come out of a division *)
(* are kept as exact fractions <<numerator, denominator>>.                 *)
(* Python's None is the empty tuple <<>> where a list is expected.         *)
(***************************************************************************)
EXTENDS Integers, Sequences, FiniteSets, TLC

VARIABLES
    \* TargetTemperature
    temperature,                \* TargetTemperature.temperature
    \* harness
    ret,                        \* the last API call made on an object and its outcome
    \* environment
    proc_stat,                  \* the kernel's cumulative CPU counters (/proc/stat)
    log_file,                   \* the content of the log file on disk
    \* Gatherer (the logger thread)
    queue_start_logging,        \* Queue(maxsize=1) shared by Manager and Gatherer
    file_handle_log,            \* Gatherer.file_handle_log: its state and unflushed writes
    open_handles,               \* handles on the log file opened and not yet closed
    current_cpu_times,          \* Gatherer.current_cpu_times
    previous_cpu_times,         \* Gatherer.previous_cpu_times
    current_target_temperature, \* Gatherer.current_target_temperature
    readings,                   \* Gatherer.cpu_temp and the three sense_hat_temp* fields
    data_for_logging,           \* Gatherer.data_for_logging
    logPc,                      \* where the logger thread is
    logger_exception,           \* the exception that ended the logger thread, or ""
    ticks,                      \* iterations of logging_loop's while loop completed
    episodes,                   \* calls of start_logging_loop so far
    stop_records,               \* records appended while the last False put was pending
    file0,                      \* the content of the log file when the program started
    \* Manager (the UI thread)
    uiPc,                       \* where the UI thread is
    uiCtx,                      \* the caller update_screen returns to
    screen_index,               \* Manager.screen_index
    value_index,                \* Manager.value_index
    screen_title_shown,         \* Manager.screen_title_shown
    joystick_direction,         \* Manager.joystick_direction
    rotation,                   \* the rotation last given to sense_hat.set_rotation
    acceleration,               \* Manager.acceleration_x and acceleration_y, in tenths of g
    joystick_events,            \* events drained by get_events() and not yet handled
    gatherer_thread,            \* Manager.gatherer_thread: "none", "alive" or "dead"
    gatherer_thread_logging_active, \* Manager.gatherer_thread_logging_active
    ui_exception,               \* the exception that ended the main loop, or ""
    shutdown_invoked,           \* os.system("sudo shutdown -h now") has been called
    \* history of the UI thread
    handled,                    \* the event manage_joystick_events has just handled
    waited,                     \* events the blocking waits of the current call consumed
    rendered,                   \* what the update_screen of this tick did, if it ran
    entered                     \* screen_index has changed since the last update_screen

ttVars == <<temperature>>
envVars == <<proc_stat, log_file, file0>>
cpuVars == <<current_cpu_times, previous_cpu_times>>
fileVars == <<file_handle_log, open_handles>>
logVars == <<queue_start_logging, current_target_temperature, readings, data_for_logging,
             logPc, logger_exception, ticks, episodes, stop_records>>
navVars == <<screen_index, value_index, screen_title_shown>>
rotVars == <<joystick_direction, rotation, acceleration>>
uiVars == <<uiPc, uiCtx, joystick_events, gatherer_thread, gatherer_thread_logging_active,
            ui_exception, shutdown_invoked>>

histVars == <<handled, waited, rendered, entered>>

vars == <<ttVars, ret, envVars, cpuVars, fileVars, logVars, navVars, rotVars, uiVars,
          histVars>>

---------------------------------------------------------------------------
(* Program constants *)

\* manager.py:234 adds value_index * 0.5: two steps per degree
StepsPerDegree == 2
\* target_temp.py:8
default_temperature == 24
\* target_temp.py:26, the lower limit of 0 <= temperature <= 70
MinTemperature == 0
\* target_temp.py:26, the upper limit
MaxTemperature == 70
\* gatherer.py:243, "/ 100 * 4"
CORE_COUNT == 4
\* manager.py:36, Queue(maxsize=1)
queue_maxsize == 1

\* degrees to half-degree units
Deg(d) == d * StepsPerDegree

None == <<>>

---------------------------------------------------------------------------
(* Bounds *)

\* set_temperature is tried with every value this far outside [0, 70] (half-degrees)
TempSlack == 3
\* synthetic CPU counters range over 0..MaxCpuTime
MaxCpuTime == 1

---------------------------------------------------------------------------
(* Fractions *)

Frac(n, d) == <<n, d>>
\* the same fraction with a positive denominator
FracNorm(f) == IF f[2] < 0 THEN <<-f[1], -f[2]>> ELSE f
FracLeq(f, g) == FracNorm(f)[1] * FracNorm(g)[2] <= FracNorm(g)[1] * FracNorm(f)[2]
FracEq(f, g) == FracNorm(f)[1] * FracNorm(g)[2] = FracNorm(g)[1] * FracNorm(f)[2]

---------------------------------------------------------------------------
(* The outcome of a call: exc is "" when the call returned, else the name  *)
(* of the exception it raised; val is the returned number.                 *)

Returned(op, arg, val) == [op |-> op, arg |-> arg, exc |-> "", val |-> val]
Raised(op, arg, exc) == [op |-> op, arg |-> arg, exc |-> exc, val |-> Frac(0, 1)]
NoCall == Returned("none", 0, Frac(0, 1))

---------------------------------------------------------------------------
(* TargetTemperature *)

\* mutant: the limits taken exclusive
set_temperature_exclusive(cur, x) ==
    IF Deg(MinTemperature) < x /\ x < Deg(MaxTemperature) THEN x ELSE cur

\* mutant: no range check at all
set_temperature_unchecked(cur, x) == x

\* the value stored after set_temperature(x) when cur is stored
set_temperature_value(cur, x) ==
    IF Deg(MinTemperature) <= x /\ x <= Deg(MaxTemperature) THEN x ELSE cur

TargetTemperature_init == Deg(default_temperature)

set_temperature(x) ==
    /\ temperature' = set_temperature_value(temperature, x)
    /\ ret' = Returned("set_temperature", x, Frac(temperature', 1))

get_temperature ==
    /\ ret' = Returned("get_temperature", 0, Frac(temperature, 1))
    /\ UNCHANGED temperature

\* the values set_temperature is called with: all around [0, 70], and the -5 degrees
\* of the specification's example
TempInputs ==
    ((Deg(MinTemperature) - TempSlack) .. (Deg(MaxTemperature) + TempSlack)) \cup {Deg(-5)}

---------------------------------------------------------------------------
(* Gatherer: CPU usage from two /proc/stat snapshots *)

RECURSIVE SumSeq(_)
SumSeq(s) == IF s = <<>> THEN 0 ELSE s[1] + SumSeq(Tail(s))

\* gatherer.py:261-265; previous_cpu_times = None makes len() raise TypeError
get_delta_cpu_times_raises(prev) == prev = None

get_delta_cpu_times(cur, prev) == [i \in 1..Len(prev) |-> cur[i] - prev[i]]

\* mutant: the busy share is taken from the first counter instead of the last
cpu_usage_of_delta_first(d) ==
    Frac((100 * SumSeq(d) - d[1] * 100) * CORE_COUNT, SumSeq(d) * 100)

\* 100 - (d[last] * 100.0 / sum(d)), then / 100 * 4
cpu_usage_of_delta(d) ==
    Frac((100 * SumSeq(d) - d[Len(d)] * 100) * CORE_COUNT, SumSeq(d) * 100)

\* mutant: a missing previous snapshot is read as all zeros
get_cpu_usage_zero_history(cur, prev) ==
    IF cur = None THEN Raised("get_cpu_usage", 0, "TypeError")
    ELSE LET d == IF prev = None THEN cur ELSE get_delta_cpu_times(cur, prev)
         IN  IF SumSeq(d) = 0 THEN Raised("get_cpu_usage", 0, "ZeroDivisionError")
             ELSE Returned("get_cpu_usage", 0, cpu_usage_of_delta(d))

\* the outcome of get_cpu_usage() on the two snapshots
get_cpu_usage(cur, prev) ==
    IF get_delta_cpu_times_raises(prev) THEN Raised("get_cpu_usage", 0, "TypeError")
    ELSE LET d == get_delta_cpu_times(cur, prev)
         IN  IF SumSeq(d) = 0 THEN Raised("get_cpu_usage", 0, "ZeroDivisionError")
             ELSE Returned("get_cpu_usage", 0, cpu_usage_of_delta(d))

\* previous <- current; current <- the four counters read from /proc/stat
update_cpu_stat_times(sample) ==
    /\ previous_cpu_times' = current_cpu_times
    /\ current_cpu_times' = sample

\* the worked example of the specification
ExamplePrevious == <<100, 0, 50, 850>>
ExampleCurrent == <<110, 0, 60, 880>>

CpuSamples == [1..4 -> 0..MaxCpuTime] \cup {ExamplePrevious, ExampleCurrent}

---------------------------------------------------------------------------
(* The log file: a sequence of tokens, as written                          *)

\* gatherer.py:15-18
order_of_columns ==
    <<"date", "cpu_divisor_for_target_temp", "target_temperature", "cpu_usage",
      "load_avg_1_min", "load_avg_5_min", "load_avg_15_min", "sense_hat_temp",
      "sense_hat_temp_from_humidity", "sense_hat_temp_from_pressure", "cpu_temp",
      "accelerometer_x", "accelerometer_y", "accelerometer_z">>

Columns == {order_of_columns[i] : i \in 1..Len(order_of_columns)}

\* log_data_separator (main.py:12) and the '\n' of gatherer.py:110 and :121
Sep == [k |-> "sep", c |-> "", v |-> Frac(0, 1)]
NL == [k |-> "nl", c |-> "", v |-> Frac(0, 1)]
\* the text of a column's name, and the text str(v) of a column's value
NameText(c) == [k |-> "name", c |-> c, v |-> Frac(0, 1)]
ValText(c, v) == [k |-> "val", c |-> c, v |-> v]

\* separator.join(texts)
RECURSIVE JoinSep(_)
JoinSep(texts) ==
    IF texts = <<>> THEN <<>>
    ELSE IF Len(texts) = 1 THEN <<texts[1]>>
    ELSE <<texts[1], Sep>> \o JoinSep(Tail(texts))

\* the line insert_log_column_headers writes
HeaderLine ==
    JoinSep([i \in 1..Len(order_of_columns) |-> NameText(order_of_columns[i])]) \o <<NL>>

\* mutant: the separator is written after every column, the last one too
RECURSIVE log_all_data_trailing_sep(_, _)
log_all_data_trailing_sep(data, i) ==
    IF i > Len(order_of_columns) THEN <<NL>>
    ELSE <<data[order_of_columns[i]], Sep>> \o log_all_data_trailing_sep(data, i + 1)

\* what log_all_data writes from column i on: each column's text, a separator
\* unless the column is the last one, and then a newline
RECURSIVE log_all_data(_, _)
log_all_data(data, i) ==
    IF i > Len(order_of_columns) THEN <<NL>>
    ELSE <<data[order_of_columns[i]]>>
         \o (IF order_of_columns[i] # order_of_columns[Len(order_of_columns)]
             THEN <<Sep>> ELSE <<>>)
         \o log_all_data(data, i + 1)

\* the dict before update_all_data_for_logging has filled it
EmptyData == [c \in Columns |-> ValText(c, Frac(0, 0))]

\* os.path.getsize(log_filename): what is on disk, not what a handle still buffers
getsize(disk) == Len(disk)

\* mutant: the header is written whatever the size of the file
insert_log_column_headers_always(disk) == HeaderLine

\* what insert_log_column_headers writes to the handle
insert_log_column_headers(disk) == IF getsize(disk) = 0 THEN HeaderLine ELSE <<>>

NoHandle == [state |-> "none", buf |-> <<>>]
\* open(log_filename, 'a+')
open_log_file == [state |-> "open", buf |-> <<>>]
write(handle, text) == [handle EXCEPT !.buf = @ \o text]

\* the lines of a content: the tokens between newlines
RECURSIVE Lines(_)
Lines(content) ==
    IF content = <<>> THEN <<>>
    ELSE LET n == CHOOSE i \in 1..(Len(content) + 1) :
                    /\ i = Len(content) + 1 \/ content[i] = NL
                    /\ \A j \in 1..(i - 1) : content[j] # NL
         IN  IF n > Len(content) THEN <<content>>
             ELSE <<SubSeq(content, 1, n - 1)>> \o Lines(SubSeq(content, n + 1, Len(content)))

\* the separator-delimited fields of a line
RECURSIVE Fields(_)
Fields(line) ==
    LET n == CHOOSE i \in 1..(Len(line) + 1) :
                /\ i = Len(line) + 1 \/ line[i] = Sep
                /\ \A j \in 1..(i - 1) : line[j] # Sep
    IN  IF n > Len(line) THEN <<line>>
        ELSE <<SubSeq(line, 1, n - 1)>> \o Fields(SubSeq(line, n + 1, Len(line)))

\* everything written to the file so far, flushed or not
Written == log_file \o file_handle_log.buf

LineCount(content) == Cardinality({i \in 1..Len(content) : content[i] = NL})

\* the lines this run of the program has added to the file
NewLines == LineCount(Written) - LineCount(file0)

---------------------------------------------------------------------------
(* Environment of the running system *)

\* /proc/stat when the program starts
BootCpuTimes == <<1, 0, 1, 8>>
\* what the counters gain between two reads: nothing, or 1 user, 1 system, 3 idle
CpuDeltas == {<<0, 0, 0, 0>>, <<1, 0, 1, 3>>}
AddSeq(a, b) == [i \in 1..Len(a) |-> a[i] + b[i]]

\* vcgencmd measure_temp, and the three SenseHat temperatures (half-degrees)
CpuTempReadings == {Deg(50)}
WarmReadings == {<<Deg(30), Deg(31), Deg(29)>>}
SenseHatReadings == {<<Deg(24), Deg(24), Deg(24)>>} \cup WarmReadings
NoReadings == [cpu_temp |-> 0, sense_hat |-> <<0, 0, 0>>]

\* the log file as the program finds it: absent or empty, or left by an earlier run
StaleRow == log_all_data([c \in Columns |-> ValText(c, Frac(1, 1))], 1)
InitialFiles == {<<>>, HeaderLine \o StaleRow}

---------------------------------------------------------------------------
(* Gatherer: the logger thread (run, start_logging_loop, logging_loop)     *)

\* cpu_temp / -(target - (t + h + p) / 3), as a fraction
calculate_cpu_divisor_for_target_temp(r, target) ==
    Frac(3 * r.cpu_temp, SumSeq(r.sense_hat) - 3 * target)

calculate_cpu_divisor_raises(r, target) == SumSeq(r.sense_hat) - 3 * target = 0

\* mutant: the shared TargetTemperature is read again for the column
logged_target_reread(snapshot, shared) == shared

\* "str(self.current_target_temperature)" (gatherer.py:134): the logger's copy,
\* not the shared object
logged_target(snapshot, shared) == snapshot

\* the dict update_all_data_for_logging builds (gatherer.py:133-154)
stringify(r, target, usage) ==
    [c \in Columns |->
        CASE c = "cpu_divisor_for_target_temp" ->
                ValText(c, calculate_cpu_divisor_for_target_temp(r, target))
          [] c = "target_temperature" ->
                ValText(c, Frac(logged_target(target, temperature), 1))
          [] c = "cpu_usage" -> ValText(c, usage)
          [] c = "sense_hat_temp" -> ValText(c, Frac(r.sense_hat[1], 1))
          [] c = "sense_hat_temp_from_humidity" -> ValText(c, Frac(r.sense_hat[2], 1))
          [] c = "sense_hat_temp_from_pressure" -> ValText(c, Frac(r.sense_hat[3], 1))
          [] c = "cpu_temp" -> ValText(c, Frac(r.cpu_temp, 1))
          [] OTHER -> ValText(c, Frac(0, 1))]

ProcessAlive == ui_exception = ""
LoggerRuns == ProcessAlive /\ gatherer_thread = "alive"

\* the logger thread dies of an exception nobody catches
LoggerDies(exc) ==
    /\ logPc' = "dead"
    /\ gatherer_thread' = "dead"
    /\ logger_exception' = exc

\* mutant: close_log_file is not called when the loop ends
close_log_file_skipped(handle) == handle

\* close_log_file: the handle is closed
close_log_file(handle) == [state |-> "closed", buf |-> <<>>]

\* reading /proc/stat in update_cpu_stat_times: the counters have moved on by delta
ReadProcStat(delta) ==
    /\ proc_stat' = AddSeq(proc_stat, delta)
    /\ update_cpu_stat_times(proc_stat')

\* mutant: get() returns the value at the front and leaves it in the queue
queue_after_get_kept(queue) == queue

\* Queue.get() in run() and logging_loop (gatherer.py:88, :79): the value at the
\* front leaves the queue
queue_after_get(queue) == Tail(queue)

\* mutant: run() starts logging whatever value it takes from the queue
run_enters_logging_always(v) == TRUE

\* "if self.queue_start_logging.get():" (gatherer.py:88)
run_enters_logging(v) == v

\* mutant: the loop reads the queue only when more than one value waits
queue_has_signal_late(queue) == Len(queue) > 1

\* "if self.queue_start_logging.qsize() > 0:" (gatherer.py:78)
queue_has_signal(queue) == Len(queue) > 0

\* run(): the blocking queue.get(); True enters start_logging_loop, which opens the
\* file, writes the header if the file is empty, and takes the first CPU snapshot
\* of logging_loop (gatherer.py:83-90, 52-69)
LoggerRun(maxLines) ==
    /\ LoggerRuns /\ logPc = "run"
    /\ queue_start_logging # <<>>
    /\ queue_start_logging' = queue_after_get(queue_start_logging)
    /\ IF run_enters_logging(Head(queue_start_logging))
       THEN /\ NewLines < maxLines
            /\ file_handle_log' = write(open_log_file, insert_log_column_headers(log_file))
            /\ open_handles' = open_handles + 1
            /\ \E delta \in CpuDeltas : ReadProcStat(delta)
            /\ logPc' = "gather"
            /\ episodes' = episodes + 1
       ELSE /\ UNCHANGED <<file_handle_log, open_handles, proc_stat, cpuVars, logPc,
                           episodes>>
    /\ UNCHANGED <<ttVars, ret, log_file, file0, current_target_temperature, readings,
                   data_for_logging, logger_exception, ticks, stop_records, navVars, histVars,
                   rotVars, uiVars>>

\* the first half of update_all_data_for_logging (gatherer.py:127-130): the CPU
\* snapshot, the temperatures and the target temperature are read
LoggerGather(maxLines, senseHatReadings) ==
    /\ LoggerRuns /\ logPc = "gather"
    /\ NewLines < maxLines
    /\ \E delta \in CpuDeltas : ReadProcStat(delta)
    /\ \E ct \in CpuTempReadings, sh \in senseHatReadings :
          readings' = [cpu_temp |-> ct, sense_hat |-> sh]
    /\ current_target_temperature' = temperature
    /\ logPc' = "record"
    /\ UNCHANGED <<ttVars, ret, log_file, file0, fileVars, queue_start_logging,
                   data_for_logging, logger_exception, ticks, episodes, stop_records,
                   navVars, histVars, rotVars>>
    /\ UNCHANGED <<uiPc, uiCtx, joystick_events, gatherer_thread_logging_active,
                   ui_exception, shutdown_invoked, gatherer_thread>>

\* the second half of update_all_data_for_logging (gatherer.py:133-154) and
\* log_all_data; a division by zero in either formula ends the thread
LoggerRecord ==
    /\ LoggerRuns /\ logPc = "record"
    /\ LET usage == get_cpu_usage(current_cpu_times, previous_cpu_times)
       IN  IF calculate_cpu_divisor_raises(readings, current_target_temperature)
           THEN /\ LoggerDies("ZeroDivisionError")
                /\ UNCHANGED <<data_for_logging, file_handle_log>>
           ELSE IF usage.exc # ""
           THEN /\ LoggerDies(usage.exc)
                /\ data_for_logging' =
                      [data_for_logging EXCEPT
                          !["cpu_divisor_for_target_temp"] =
                              stringify(readings, current_target_temperature, usage.val)[
                                  "cpu_divisor_for_target_temp"],
                          !["target_temperature"] =
                              stringify(readings, current_target_temperature, usage.val)[
                                  "target_temperature"]]
                /\ UNCHANGED file_handle_log
           ELSE /\ data_for_logging' =
                      stringify(readings, current_target_temperature, usage.val)
                /\ file_handle_log' = write(file_handle_log, log_all_data(data_for_logging', 1))
                /\ logPc' = "sleep"
                /\ UNCHANGED <<gatherer_thread, logger_exception>>
    /\ stop_records' =
          IF logPc' = "sleep" /\ queue_start_logging = <<FALSE>>
          THEN stop_records + 1 ELSE stop_records
    /\ UNCHANGED <<ttVars, ret, envVars, cpuVars, open_handles, queue_start_logging,
                   current_target_temperature, readings, ticks, episodes, navVars, histVars,
                   rotVars>>
    /\ UNCHANGED <<uiPc, uiCtx, joystick_events, gatherer_thread_logging_active,
                   ui_exception, shutdown_invoked>>

\* mutant: the loop goes on whatever value it takes from the queue
logging_active_after_get_sticky(v) == TRUE

\* "logging_active = self.queue_start_logging.get()" (gatherer.py:79)
logging_active_after_get(v) == v

\* the end of an iteration (gatherer.py:75-81): after the sleep the queue is looked
\* at without blocking; a False taken from it ends the loop and closes the file
LoggerCheck ==
    /\ LoggerRuns /\ logPc = "sleep"
    /\ ticks' = ticks + 1
    /\ IF queue_has_signal(queue_start_logging)
       THEN /\ queue_start_logging' = queue_after_get(queue_start_logging)
            /\ IF logging_active_after_get(Head(queue_start_logging))
               THEN /\ logPc' = "gather"
                    /\ UNCHANGED <<log_file, fileVars>>
               ELSE /\ logPc' = "run"
                    /\ file_handle_log' = close_log_file(file_handle_log)
                    \* closing writes the buffer out and gives the handle back
                    /\ IF file_handle_log'.state = "closed"
                       THEN /\ log_file' = log_file \o file_handle_log.buf
                            /\ open_handles' = open_handles - 1
                       ELSE UNCHANGED <<log_file, open_handles>>
       ELSE /\ logPc' = "gather"
            /\ UNCHANGED <<queue_start_logging, log_file, fileVars>>
    /\ UNCHANGED <<ttVars, ret, proc_stat, file0, cpuVars, current_target_temperature,
                   readings, data_for_logging, logger_exception, episodes, stop_records,
                   navVars, histVars, rotVars, uiVars>>

\* the buffered writer writes its buffer out when it is full
BufferFlush ==
    /\ ProcessAlive
    /\ file_handle_log.state = "open" /\ file_handle_log.buf # <<>>
    /\ log_file' = log_file \o file_handle_log.buf
    /\ file_handle_log' = [file_handle_log EXCEPT !.buf = <<>>]
    /\ UNCHANGED <<ttVars, ret, proc_stat, file0, cpuVars, open_handles, logVars, navVars, histVars,
                   rotVars, uiVars>>

\* open(log_filename, 'a+') raises (the directory is missing, the file is not
\* writable): open_log_file has no handler (gatherer.py:97), nor have
\* start_logging_loop, run or __init__, so the thread ends
LoggerOpenFails ==
    /\ LoggerRuns /\ logPc = "run"
    /\ queue_start_logging # <<>>
    /\ run_enters_logging(Head(queue_start_logging))
    /\ queue_start_logging' = queue_after_get(queue_start_logging)
    /\ LoggerDies("OSError")
    /\ UNCHANGED <<ttVars, ret, envVars, cpuVars, fileVars, current_target_temperature,
                   readings, data_for_logging, ticks, episodes, stop_records, navVars,
                   histVars, rotVars>>
    /\ UNCHANGED <<uiPc, uiCtx, joystick_events, gatherer_thread_logging_active,
                   ui_exception, shutdown_invoked>>

\* a write of log_all_data raises (the disk is full, the medium is gone): no
\* handler in log_all_data, logging_loop or above, so the thread ends with the
\* handle open
LoggerAppendFails ==
    /\ LoggerRuns /\ logPc = "record"
    /\ ~calculate_cpu_divisor_raises(readings, current_target_temperature)
    /\ LET usage == get_cpu_usage(current_cpu_times, previous_cpu_times)
       IN  /\ usage.exc = ""
           /\ data_for_logging' =
                 stringify(readings, current_target_temperature, usage.val)
    /\ LoggerDies("OSError")
    /\ UNCHANGED <<ttVars, ret, envVars, cpuVars, fileVars, queue_start_logging,
                   current_target_temperature, readings, ticks, episodes, stop_records,
                   navVars, histVars, rotVars>>
    /\ UNCHANGED <<uiPc, uiCtx, joystick_events, gatherer_thread_logging_active,
                   ui_exception, shutdown_invoked>>

---------------------------------------------------------------------------
(* Manager: the UI thread                                                  *)

\* manager.py:20-21
screen_order ==
    <<"Temperature", "Pressure", "Humidity", "CPU Temperature", "CPU Usage", "Shutdown",
      "Set Target Temperature", "Logging Start/Off">>

\* mutant: the sign of screen_index is dropped before the modulo
Screen_abs(index) ==
    screen_order[((IF index < 0 THEN -index ELSE index) % Len(screen_order)) + 1]

\* screen_order[screen_index % len(screen_order)]
Screen(index) == screen_order[(index % Len(screen_order)) + 1]

Directions == {"left", "right", "up", "down", "middle"}
Event(d, a) == [direction |-> d, action |-> a]

\* no update_screen has run in this tick
NoRender == [method |-> "", index |-> 0, title |-> FALSE, glyph |-> ""]

\* round(x, 0) of an acceleration given in tenths of g: to the nearest integer,
\* a half to the even one
Round0(tenths) ==
    LET q == tenths \div 10
        r == tenths % 10
    IN  IF r < 5 THEN q
        ELSE IF r > 5 THEN q + 1
        ELSE IF q % 2 = 0 THEN q ELSE q + 1

\* mutant: y is looked at before x
screen_rotation_y_first(x, y) ==
    IF y = 1 THEN 0 ELSE IF y = -1 THEN 180 ELSE IF x = -1 THEN 90 ELSE 270

\* update_screen_rotation's table (manager.py:79-86)
screen_rotation(x, y) ==
    IF x = -1 THEN 90 ELSE IF y = 1 THEN 0 ELSE IF y = -1 THEN 180 ELSE 270

\* mutant: the joystick map stays the upright one whatever the sample
joystick_rotation_upright(x, y) ==
    [left |-> "left", right |-> "right", up |-> "up", down |-> "down"]

\* update_joystick_rotation's table (manager.py:94-101)
joystick_rotation(x, y) ==
    IF x = -1 THEN [left |-> "up", right |-> "down", up |-> "right", down |-> "left"]
    ELSE IF y = 1 THEN [left |-> "left", right |-> "right", up |-> "up", down |-> "down"]
    ELSE IF y = -1 THEN [left |-> "right", right |-> "left", up |-> "down", down |-> "up"]
    ELSE [left |-> "down", right |-> "up", up |-> "left", down |-> "right"]

\* manager.py:37
InitialJoystickDirection ==
    [left |-> "left", right |-> "right", up |-> "up", down |-> "down"]

\* mutant: value_index is kept from going below zero
update_screen_index_clamped(e, jd, s, v, t) ==
    IF e.direction = jd.left THEN <<s - 1, 0, FALSE>>
    ELSE IF e.direction = jd.right THEN <<s + 1, 0, FALSE>>
    ELSE IF e.direction = jd.down THEN <<s, IF v > 0 THEN v - 1 ELSE 0, t>>
    ELSE IF e.direction = jd.up THEN <<s, v + 1, t>>
    ELSE <<s, v, t>>

\* update_screen_index: <<screen_index, value_index, screen_title_shown>> after e
update_screen_index(e, jd, s, v, t) ==
    IF e.direction = jd.left THEN <<s - 1, 0, FALSE>>
    ELSE IF e.direction = jd.right THEN <<s + 1, 0, FALSE>>
    ELSE IF e.direction = jd.down THEN <<s, v - 1, t>>
    ELSE IF e.direction = jd.up THEN <<s, v + 1, t>>
    ELSE <<s, v, t>>

\* the main loop ends with an exception: the process exits, and with it the
\* daemon thread
UiDies(exc) ==
    /\ uiPc' = "crashed"
    /\ ui_exception' = exc

\* where update_screen returns to
ReturnFromUpdateScreen ==
    /\ uiPc' = IF uiCtx = "screen_off" THEN "events" ELSE "main_loop"
    /\ uiCtx' = "main_loop"

\* main_loop, lines 54-57 up to get_events(): the acceleration is read, the screen
\* and the joystick map are turned, the pending joystick events are drained
UiMainLoop(accels, lists) ==
    /\ ProcessAlive /\ uiPc = "main_loop"
    /\ \E a \in accels :
          /\ acceleration' = a
          /\ rotation' = screen_rotation(Round0(a[1]), Round0(a[2]))
          /\ joystick_direction' = joystick_rotation(Round0(a[1]), Round0(a[2]))
    /\ \E l \in lists : joystick_events' = l
    /\ uiPc' = "events"
    /\ handled' = <<>>
    /\ waited' = <<>>
    /\ rendered' = NoRender
    /\ UNCHANGED entered
    /\ UNCHANGED <<ttVars, ret, envVars, cpuVars, fileVars, logVars, navVars, uiCtx,
                   gatherer_thread, gatherer_thread_logging_active, ui_exception,
                   shutdown_invoked>>

\* one iteration of manage_joystick_events' for loop, or its end, after which
\* main_loop calls update_screen
UiJoystickEvent(window, maxValue) ==
    /\ ProcessAlive /\ uiPc = "events"
    /\ IF joystick_events = <<>>
       THEN /\ uiPc' = "update_screen"
            /\ uiCtx' = "main_loop"
            /\ handled' = <<>>
            /\ UNCHANGED <<navVars, joystick_events>>
       ELSE LET e == Head(joystick_events)
                nav == update_screen_index(e, joystick_direction, screen_index,
                                           value_index, screen_title_shown)
            IN  /\ joystick_events' = Tail(joystick_events)
                /\ handled' = <<e>>
                /\ uiCtx' = uiCtx
                /\ IF e.action # "released"
                   THEN IF e.direction = "middle"
                        THEN /\ uiPc' = "screen_off"
                             /\ UNCHANGED navVars
                        ELSE /\ nav[1] \in window
                             /\ nav[2] \in (-maxValue)..maxValue
                             /\ screen_index' = nav[1]
                             /\ value_index' = nav[2]
                             /\ screen_title_shown' = nav[3]
                             /\ uiPc' = uiPc
                   ELSE UNCHANGED <<navVars, uiPc>>
    /\ entered' = (entered \/ screen_index' # screen_index)
    /\ waited' = IF uiPc' = "screen_off" THEN <<>> ELSE waited
    /\ UNCHANGED <<ttVars, ret, envVars, cpuVars, fileVars, logVars, rotVars,
                   gatherer_thread, gatherer_thread_logging_active, ui_exception,
                   shutdown_invoked, rendered>>

\* mutant: any event ends the wait
screen_off_ends_any(e) == e.direction \in Directions

\* "if joystick_event.direction is 'middle':" (manager.py:147)
screen_off_ends(e) == e.direction = "middle"

\* turn_off_screen_and_wait_for_user_action: one wait_for_event; a 'middle' event
\* calls update_screen and ends the wait
UiScreenOff(events) ==
    /\ ProcessAlive /\ uiPc = "screen_off"
    /\ \E e \in events :
          /\ waited' = <<e>>
          /\ IF screen_off_ends(e)
             THEN uiPc' = "update_screen" /\ uiCtx' = "screen_off"
             ELSE UNCHANGED <<uiPc, uiCtx>>
    /\ UNCHANGED <<handled, ttVars, ret, envVars, cpuVars, fileVars, logVars, navVars, rotVars,
                   joystick_events, gatherer_thread, gatherer_thread_logging_active,
                   ui_exception, shutdown_invoked, rendered, entered>>

Rendering(screens) ==
    /\ ProcessAlive /\ uiPc = "update_screen"
    /\ Screen(screen_index) \in screens

\* show_screen_title and the dispatch of update_screen: the title is displayed if
\* screen_title_shown is not set, and the method of the screen is called
Show(method, glyph) ==
    /\ screen_title_shown' = TRUE
    /\ rendered' = [method |-> method, index |-> screen_index,
                    title |-> ~screen_title_shown, glyph |-> glyph]
    /\ entered' = FALSE

\* a screen whose drawing is not followed
Dispatch(method) == Show(method, "")

\* update_screen on the Temperature, Pressure and Humidity screens: the title if it
\* is due, then the reading as a number or as a bar
UiSensorScreen ==
    /\ Rendering({"Temperature", "Pressure", "Humidity"})
    /\ Dispatch(CASE Screen(screen_index) = "Temperature" -> "update_screen_for_temperature"
                  [] Screen(screen_index) = "Pressure" -> "update_screen_for_pressure"
                  [] OTHER -> "update_screen_for_humidity")
    /\ ReturnFromUpdateScreen
    /\ UNCHANGED <<handled, ttVars, ret, envVars, cpuVars, fileVars, logVars, screen_index,
                   value_index, rotVars, joystick_events, gatherer_thread,
                   gatherer_thread_logging_active, ui_exception, shutdown_invoked,
                   waited>>

\* mutant: put never waits for room in the queue
put_blocks_never(queue) == FALSE

\* Queue(maxsize=1).put (manager.py:36, :212, :215) waits while the queue is full
put_blocks(queue) == Len(queue) >= queue_maxsize

\* mutant: any move of the joystick sends the start signal
manage_logging_signal_any(v) == IF v # 0 THEN <<TRUE>> ELSE <<>>

\* what update_screen_for_manage_logging puts on the queue for value_index v
manage_logging_signal(v) == IF v > 0 THEN <<TRUE>> ELSE IF v < 0 THEN <<FALSE>> ELSE <<>>

\* the letter update_screen_for_manage_logging draws (manager.py:217-220): '|' for
\* a live thread told to log, 'O' when logging was told to stop, else nothing
manage_logging_glyph(alive, active) ==
    IF alive /\ active THEN "|" ELSE IF ~active THEN "O" ELSE ""

\* update_screen on the Logging Start/Off screen; queue.put blocks while the queue
\* is full; Manager.run() without a thread fails on gatherer_thread.is_alive()
UiManageLogging ==
    /\ Rendering({"Logging Start/Off"})
    /\ LET signal == manage_logging_signal(value_index)
       IN  /\ signal # <<>> => ~put_blocks(queue_start_logging)
           /\ queue_start_logging' = queue_start_logging \o signal
           /\ gatherer_thread_logging_active' =
                 IF signal # <<>> THEN signal[1] ELSE gatherer_thread_logging_active
           /\ stop_records' = IF signal = <<FALSE>> THEN 0 ELSE stop_records
           /\ Show("update_screen_for_manage_logging",
                   IF gatherer_thread = "none" THEN ""
                   ELSE manage_logging_glyph(gatherer_thread = "alive",
                                             gatherer_thread_logging_active'))
    /\ IF gatherer_thread = "none"
       THEN UiDies("AttributeError") /\ UNCHANGED <<value_index, uiCtx>>
       ELSE /\ value_index' = 0
            /\ ReturnFromUpdateScreen
            /\ UNCHANGED ui_exception
    /\ UNCHANGED <<handled, ttVars, ret, envVars, cpuVars, fileVars, current_target_temperature,
                   readings, data_for_logging, logPc, logger_exception, ticks, episodes,
                   screen_index, rotVars, joystick_events, gatherer_thread,
                   shutdown_invoked, waited>>

\* mutant: the target moves by one step whatever value_index holds
target_after_steps_single(current, k) == current + (IF k > 0 THEN 1 ELSE -1)

\* "current_target_temperature += self.value_index * 0.5" (manager.py:234), in
\* half degrees
target_after_steps(current, k) == current + k

\* update_screen on the Set Target Temperature screen
UiSetTargetTemperature ==
    /\ Rendering({"Set Target Temperature"})
    /\ Dispatch("update_screen_for_set_target_temperature")
    /\ IF value_index # 0
       THEN /\ set_temperature(target_after_steps(temperature, value_index))
            /\ value_index' = 0
       ELSE UNCHANGED <<temperature, ret, value_index>>
    /\ ReturnFromUpdateScreen
    /\ UNCHANGED <<handled, envVars, cpuVars, fileVars, logVars, screen_index, rotVars,
                   joystick_events, gatherer_thread, gatherer_thread_logging_active,
                   ui_exception, shutdown_invoked, waited>>

\* update_screen on the CPU Temperature screen: a Gatherer of its own reads
\* /proc/stat twice (update_cpu_usage), then the temperature is shown
UiCpuTemperature(maxStat) ==
    /\ Rendering({"CPU Temperature"})
    /\ Dispatch("update_screen_for_cpu_temperature")
    /\ \E d1, d2 \in CpuDeltas : proc_stat' = AddSeq(AddSeq(proc_stat, d1), d2)
    /\ SumSeq(proc_stat') <= maxStat
    /\ ReturnFromUpdateScreen
    /\ UNCHANGED <<handled, ttVars, ret, log_file, file0, cpuVars, fileVars, logVars, screen_index,
                   value_index, rotVars, joystick_events, gatherer_thread,
                   gatherer_thread_logging_active, ui_exception, shutdown_invoked,
                   waited>>

\* the two snapshots of the Gatherer(None, 0.5, None, None, None) a CPU screen
\* builds for one render (gatherer.py:37-38)
FreshGatherer == [current_cpu_times |-> None, previous_cpu_times |-> None]

\* update_cpu_stat_times on that object
advance_cpu_stat_times(g, sample) ==
    [current_cpu_times |-> sample, previous_cpu_times |-> g.current_cpu_times]

\* mutant: /proc/stat is read once
update_cpu_usage_once(g, sample1, sample2) == advance_cpu_stat_times(g, sample2)

\* update_cpu_usage: update_cpu_stat_times, a sleep, update_cpu_stat_times
\* (gatherer.py:247-253)
update_cpu_usage(g, sample1, sample2) ==
    advance_cpu_stat_times(advance_cpu_stat_times(g, sample1), sample2)

\* update_screen on the CPU Usage screen: a Gatherer of its own reads /proc/stat
\* twice and get_cpu_usage() is computed from the two reads
UiCpuUsage(maxStat) ==
    /\ Rendering({"CPU Usage"})
    /\ Dispatch("update_screen_for_cpu_usage")
    /\ \E d1, d2 \in CpuDeltas :
          LET g == update_cpu_usage(FreshGatherer, AddSeq(proc_stat, d1),
                                    AddSeq(AddSeq(proc_stat, d1), d2))
              usage == get_cpu_usage(g.current_cpu_times, g.previous_cpu_times)
          IN  /\ proc_stat' = AddSeq(AddSeq(proc_stat, d1), d2)
              /\ ret' = usage
              /\ IF usage.exc # ""
                 THEN /\ UiDies(usage.exc)
                      /\ UNCHANGED uiCtx
                 ELSE /\ ReturnFromUpdateScreen
                      /\ UNCHANGED ui_exception
    /\ SumSeq(proc_stat') <= maxStat
    /\ UNCHANGED <<handled, ttVars, log_file, file0, cpuVars, fileVars, logVars, screen_index,
                   value_index, rotVars, joystick_events, gatherer_thread,
                   gatherer_thread_logging_active, shutdown_invoked, waited>>

\* update_screen on the Shutdown screen, up to its first wait_for_event
UiShutdownShow ==
    /\ Rendering({"Shutdown"})
    /\ Dispatch("update_screen_for_shutdown")
    /\ waited' = <<>>
    /\ uiPc' = "shutdown_wait1"
    /\ UNCHANGED <<handled, ttVars, ret, envVars, cpuVars, fileVars, logVars, screen_index,
                   value_index, rotVars, uiCtx, joystick_events, gatherer_thread,
                   gatherer_thread_logging_active, ui_exception, shutdown_invoked>>

\* the first wait_for_event of update_screen_for_shutdown (manager.py:346-347) and
\* the elif branches of lines 355-358
UiShutdownWait1(events, window) ==
    /\ ProcessAlive /\ uiPc = "shutdown_wait1"
    /\ \E e \in events :
          /\ waited' = <<e>>
          /\ IF e.direction = joystick_direction.up
             THEN /\ uiPc' = "shutdown_wait2"
                  /\ UNCHANGED <<screen_index, uiCtx>>
             ELSE /\ screen_index' =
                        IF e.direction = joystick_direction.left THEN screen_index - 1
                        ELSE IF e.direction = joystick_direction.right THEN screen_index + 1
                        ELSE screen_index
                  /\ screen_index' \in window
                  /\ ReturnFromUpdateScreen
    /\ entered' = (entered \/ screen_index' # screen_index)
    /\ UNCHANGED <<handled, ttVars, ret, envVars, cpuVars, fileVars, logVars, value_index,
                   screen_title_shown, rotVars, joystick_events, gatherer_thread,
                   gatherer_thread_logging_active, ui_exception, shutdown_invoked,
                   rendered>>

\* mutant: the second event is not looked at
shutdown_confirmed_always(e, jd) == TRUE

\* "if joystick_event.direction is self.joystick_direction['up']:" (manager.py:350)
shutdown_confirmed(e, jd) == e.direction = jd.up

\* the second wait_for_event (manager.py:349-352); after "sudo shutdown -h now" the
\* system goes down
UiShutdownWait2(events) ==
    /\ ProcessAlive /\ uiPc = "shutdown_wait2"
    /\ \E e \in events :
          /\ waited' = waited \o <<e>>
          /\ IF shutdown_confirmed(e, joystick_direction)
             THEN /\ shutdown_invoked' = TRUE
                  /\ uiPc' = "halted"
                  /\ UNCHANGED uiCtx
             ELSE /\ ReturnFromUpdateScreen
                  /\ UNCHANGED shutdown_invoked
    /\ UNCHANGED <<handled, ttVars, ret, envVars, cpuVars, fileVars, logVars, navVars, rotVars,
                   joystick_events, gatherer_thread, gatherer_thread_logging_active,
                   ui_exception, rendered, entered>>

---------------------------------------------------------------------------
(* Initial state: Manager() built, run_with_logging has started the thread *)

InitObjects ==
    /\ temperature = TargetTemperature_init
    /\ ret = NoCall
    /\ proc_stat = BootCpuTimes
    /\ queue_start_logging = <<>>
    /\ file_handle_log = NoHandle
    /\ open_handles = 0
    /\ current_cpu_times = None
    /\ previous_cpu_times = None
    /\ current_target_temperature = TargetTemperature_init
    /\ readings = NoReadings
    /\ data_for_logging = EmptyData
    /\ logPc = "run"
    /\ logger_exception = ""
    /\ ticks = 0
    /\ episodes = 0
    /\ stop_records = 0
    /\ uiPc = "main_loop"
    /\ uiCtx = "main_loop"
    /\ screen_index = 0
    /\ value_index = 0
    /\ screen_title_shown = FALSE
    /\ joystick_direction = InitialJoystickDirection
    /\ rotation = 0
    /\ acceleration = None
    /\ joystick_events = <<>>
    /\ gatherer_thread_logging_active = FALSE
    /\ ui_exception = ""
    /\ shutdown_invoked = FALSE
    /\ handled = <<>>
    /\ waited = <<>>
    /\ rendered = NoRender
    /\ entered = TRUE

Init ==
    /\ InitObjects
    /\ gatherer_thread = "alive"
    /\ log_file \in InitialFiles
    /\ file0 = log_file

---------------------------------------------------------------------------
(* Specification of a TargetTemperature object used on its own *)

InitTT ==
    /\ InitObjects
    /\ gatherer_thread = "none"
    /\ log_file = <<>>
    /\ file0 = <<>>

othersTT == <<envVars, cpuVars, fileVars, logVars, navVars, rotVars, uiVars, histVars>>

TTSet == (\E x \in TempInputs : set_temperature(x)) /\ UNCHANGED othersTT
TTGet == get_temperature /\ UNCHANGED othersTT

NextTT == TTSet \/ TTGet

SpecTT == InitTT /\ [][NextTT]_vars

---------------------------------------------------------------------------
(* Specification of a Gatherer built without a queue (Gatherer(None, ...)) *)
(* whose CPU methods are called in any order on synthetic snapshots        *)

othersCpu == <<ttVars, envVars, fileVars, logVars, navVars, rotVars, uiVars, histVars>>

CpuUpdate ==
    /\ \E s \in CpuSamples : update_cpu_stat_times(s)
    /\ ret' = Returned("update_cpu_stat_times", 0, Frac(0, 1))
    /\ UNCHANGED othersCpu

CpuGetUsage ==
    /\ ret' = get_cpu_usage(current_cpu_times, previous_cpu_times)
    /\ UNCHANGED <<cpuVars, othersCpu>>

NextCpu == CpuUpdate \/ CpuGetUsage

SpecCpu == InitTT /\ [][NextCpu]_vars

---------------------------------------------------------------------------
(* Specification of the running system: the UI thread and the logger       *)
(* thread.  The user stays on the screens around the Logging Start/Off     *)
(* screen, with the board lying flat.                                      *)

\* at most this many events are pending at one get_events()
MaxEvents == 1
\* value_index is followed this far from 0
MaxValueIndex == 1
\* the log file is followed until the program has added this many lines
MaxLines == 3

RECURSIVE SeqsUpTo(_, _)
SeqsUpTo(S, n) == IF n = 0 THEN {<<>>} ELSE SeqsUpTo(S, n - 1) \cup [1..n -> S]

\* screen_index values the user visits: Logging Start/Off (-1), Temperature, Pressure
LoggingWindow == {-1, 0, 1}
\* y = 1.0 g: rotation 0
FlatAccels == {<<0, 10>>}
JoystickEvents == {Event(d, a) : d \in Directions, a \in {"pressed", "released"}}

UiMain == UiMainLoop(FlatAccels, SeqsUpTo(JoystickEvents, MaxEvents))
UiEvents == UiJoystickEvent(LoggingWindow, MaxValueIndex)
UiOff == UiScreenOff(JoystickEvents)
LogRun == LoggerRun(MaxLines)
LogGather == LoggerGather(MaxLines, SenseHatReadings)

Next ==
    \/ UiMain
    \/ UiEvents
    \/ UiOff
    \/ UiSensorScreen
    \/ UiManageLogging
    \/ LogRun
    \/ LogGather
    \/ LoggerRecord
    \/ LoggerCheck
    \/ BufferFlush

Spec == Init /\ [][Next]_vars

---------------------------------------------------------------------------
(* Specification of the running system with the user on the Set Target     *)
(* Temperature screen and its neighbours.  A joystick held up or down      *)
(* delivers HeldRepeat events to one get_events(), which moves the target  *)
(* by HeldRepeat / 2 degrees at the next update_screen.                    *)

\* events a held joystick delivers to one get_events()
HeldRepeat == 46
\* lines of the log file followed in this specification
TargetMaxLines == 2

\* screen_index values the user moves to: Set Target Temperature (-2), Logging Start/Off (-1)
TargetWindow == {-2, -1}

Held(d) == [i \in 1..HeldRepeat |-> Event(d, IF i = 1 THEN "pressed" ELSE "held")]
HeldLists ==
    {<<>>, <<Event("left", "pressed")>>, <<Event("right", "pressed")>>,
     Held("up"), Held("down")}

UiMainTarget == UiMainLoop(FlatAccels, HeldLists)
UiEventsTarget == UiJoystickEvent(TargetWindow, HeldRepeat)
LogRunTarget == LoggerRun(TargetMaxLines)
LogGatherTarget == LoggerGather(TargetMaxLines, WarmReadings)

NextTarget ==
    \/ UiMainTarget
    \/ UiEventsTarget
    \/ UiSensorScreen
    \/ UiManageLogging
    \/ UiSetTargetTemperature
    \/ LogRunTarget
    \/ LogGatherTarget
    \/ LoggerRecord
    \/ LoggerCheck

InitTarget ==
    /\ InitObjects
    /\ gatherer_thread = "alive"
    /\ log_file = <<>>
    /\ file0 = log_file

SpecTarget == InitTarget /\ [][NextTarget]_vars

---------------------------------------------------------------------------
(* Specification of the UI thread on all eight screens, with the board     *)
(* lying flat.  The logger thread takes the signals of the Logging         *)
(* Start/Off screen but is not followed into its loop.                     *)

\* screen_index is followed from -MaxScreen to MaxScreen
MaxScreen == 8
\* the target temperature is followed this many half-degrees around its default
MaxTargetMove == 1
\* /proc/stat is followed until its counters sum to this
MaxStat == 16
\* lines of the log file followed in this specification
UiMaxLines == 1

ScreenWindow == (-MaxScreen) .. MaxScreen

UiEventsUi == UiJoystickEvent(ScreenWindow, MaxValueIndex)
UiSetTargetUi ==
    /\ UiSetTargetTemperature
    /\ temperature' \in (TargetTemperature_init - MaxTargetMove) ..
                         (TargetTemperature_init + MaxTargetMove)
UiCpuTemperatureUi == UiCpuTemperature(MaxStat)
UiCpuUsageUi == UiCpuUsage(MaxStat)
UiShutdownWait1Ui == UiShutdownWait1(JoystickEvents, ScreenWindow)
UiShutdownWait2Ui == UiShutdownWait2(JoystickEvents)
LogRunUi == LoggerRun(UiMaxLines)

NextUi ==
    \/ UiMain
    \/ UiEventsUi
    \/ UiOff
    \/ UiSensorScreen
    \/ UiManageLogging
    \/ UiSetTargetUi
    \/ UiCpuTemperatureUi
    \/ UiCpuUsageUi
    \/ UiShutdownShow
    \/ UiShutdownWait1Ui
    \/ UiShutdownWait2Ui
    \/ LogRunUi

SpecUi == InitTarget /\ [][NextUi]_vars

---------------------------------------------------------------------------
(* Specification of the UI thread with the board turned every way, on the  *)
(* screens from Temperature to Shutdown.                                   *)

\* screen_index is followed from 0 to LastRotScreen (5 is the Shutdown screen)
LastRotScreen == 5

RotWindow == 0 .. LastRotScreen

\* (x, y) in tenths of g: the four ways up, a corner, and values on both sides of
\* what round() takes for -1 and 1
TiltAccels ==
    {<<0, 10>>, <<-10, 0>>, <<0, -10>>, <<10, 0>>, <<-10, 10>>, <<-5, 10>>, <<-6, -10>>,
     <<0, 0>>, <<0, 15>>, <<-15, 6>>}

UiMainRot == UiMainLoop(TiltAccels, SeqsUpTo(JoystickEvents, MaxEvents))
UiEventsRot == UiJoystickEvent(RotWindow, MaxValueIndex)
UiShutdownWait1Rot == UiShutdownWait1(JoystickEvents, RotWindow)

NextRot ==
    \/ UiMainRot
    \/ UiEventsRot
    \/ UiOff
    \/ UiSensorScreen
    \/ UiCpuTemperatureUi
    \/ UiCpuUsageUi
    \/ UiShutdownShow
    \/ UiShutdownWait1Rot
    \/ UiShutdownWait2Ui

SpecRot == InitTarget /\ [][NextRot]_vars

---------------------------------------------------------------------------
(* Specification of the event loop: get_events() returns up to             *)
(* LoopMaxEvents events, the device is held upright, upside down or on its *)
(* side, the user moves over the three sensor screens.                     *)

LoopMaxEvents == 3
LoopMaxValue == 3
LoopLastScreen == 2

LoopWindow == 0 .. LoopLastScreen
LoopAccels == {<<0, 10>>, <<0, -10>>, <<-10, 0>>}
LoopEvents ==
    {Event(d, "pressed") : d \in Directions} \cup {Event("up", "released")}

UiMainLoopN == UiMainLoop(LoopAccels, SeqsUpTo(LoopEvents, LoopMaxEvents))
UiEventsLoop == UiJoystickEvent(LoopWindow, LoopMaxValue)
UiOffLoop == UiScreenOff(LoopEvents)

NextLoop ==
    \/ UiMainLoopN
    \/ UiEventsLoop
    \/ UiOffLoop
    \/ UiSensorScreen

SpecLoop == InitTarget /\ [][NextLoop]_vars

---------------------------------------------------------------------------
(* Specification of the running system with every user of the CPU          *)
(* snapshots: the logger over a first and a restarted episode, and the CPU *)
(* screens of the UI.  The user moves between Logging Start/Off (-1) and   *)
(* CPU Usage (4).                                                          *)

\* lines of the log file followed in this specification
SnapMaxLines == 3
\* the CPU screens read /proc/stat while its counters add up to this at most
SnapMaxStat == 20
SnapLastScreen == 4

SnapWindow == -1 .. SnapLastScreen
SnapLists == {<<>>} \cup {<<Event(d, "pressed")>> : d \in {"left", "right", "up", "down"}}

UiMainSnap == UiMainLoop(FlatAccels, SnapLists)
UiEventsSnap == UiJoystickEvent(SnapWindow, MaxValueIndex)
UiCpuTemperatureSnap == UiCpuTemperature(SnapMaxStat)
UiCpuUsageSnap == UiCpuUsage(SnapMaxStat)
LogRunSnap == LoggerRun(SnapMaxLines)
LogGatherSnap == LoggerGather(SnapMaxLines, WarmReadings)

NextSnap ==
    \/ UiMainSnap
    \/ UiEventsSnap
    \/ UiSensorScreen
    \/ UiManageLogging
    \/ UiCpuTemperatureSnap
    \/ UiCpuUsageSnap
    \/ LogRunSnap
    \/ LogGatherSnap
    \/ LoggerRecord
    \/ LoggerCheck

SpecSnap == InitTarget /\ [][NextSnap]_vars

---------------------------------------------------------------------------
(* Specification of the two threads with the logger thread scheduled       *)
(* fairly: a step of the logger that stays possible is taken in the end.   *)
(* The user is on the Logging Start/Off screen and its neighbours.         *)

\* lines of the log file followed in this specification
LiveMaxLines == 3

\* what one get_events() returns: nothing, or one pressed direction
PressedLists == {<<>>} \cup {<<Event(d, "pressed")>> : d \in Directions \ {"middle"}}

UiMainLive == UiMainLoop(FlatAccels, PressedLists)
LogRunLive == LoggerRun(LiveMaxLines)
LogGatherLive == LoggerGather(LiveMaxLines, WarmReadings)

LoggerNextLive ==
    \/ LogRunLive
    \/ LogGatherLive
    \/ LoggerRecord
    \/ LoggerCheck

NextLive ==
    \/ UiMainLive
    \/ UiEvents
    \/ UiSensorScreen
    \/ UiManageLogging
    \/ LoggerNextLive

SpecLive == InitTarget /\ [][NextLive]_vars /\ WF_vars(LoggerNextLive)

---------------------------------------------------------------------------
(* Specification of the running system with a log file that cannot always  *)
(* be opened or written, the user on the Logging Start/Off screen and its  *)
(* neighbours.                                                             *)

\* lines of the log file followed in this specification
FailMaxLines == 2

UiMainFail == UiMainLoop(FlatAccels, PressedLists)
LogRunFail == LoggerRun(FailMaxLines)
LogGatherFail == LoggerGather(FailMaxLines, WarmReadings)

NextFail ==
    \/ UiMainFail
    \/ UiEvents
    \/ UiSensorScreen
    \/ UiManageLogging
    \/ LogRunFail
    \/ LogGatherFail
    \/ LoggerRecord
    \/ LoggerCheck
    \/ LoggerOpenFails
    \/ LoggerAppendFails

\* Manager() followed by run_with_logging(...), which starts the thread, or by
\* run(), which does not (manager.py:44-50)
InitFail ==
    /\ InitObjects
    /\ gatherer_thread \in {"alive", "none"}
    /\ log_file = <<>>
    /\ file0 = log_file

SpecFail == InitFail /\ [][NextFail]_vars

---------------------------------------------------------------------------
(* Properties of TargetTemperature (checked under SpecTT)                  *)

InRange(x) == Deg(MinTemperature) <= x /\ x <= Deg(MaxTemperature)

\* C1: set_temperature(x) with 0 <= x <= 70 stores x, and a get_temperature() that
\* follows returns x; with x < 0 or x > 70 the stored value is unchanged and the
\* call returns that unchanged value without raising.
C1_SetTemperature ==
    [][ /\ (ret'.op = "set_temperature" /\ InRange(ret'.arg))
            => temperature' = ret'.arg /\ ret'.exc = ""
        /\ (ret'.op = "set_temperature" /\ ~InRange(ret'.arg))
            => /\ temperature' = temperature
               /\ ret'.exc = ""
               /\ ret'.val = Frac(temperature, 1)
        /\ (ret.op = "set_temperature" /\ InRange(ret.arg) /\ ret'.op = "get_temperature")
            => ret'.exc = "" /\ ret'.val = Frac(ret.arg, 1)
        /\ (ret.op = "set_temperature" /\ ~InRange(ret.arg) /\ ret'.op = "get_temperature")
            => ret'.val = ret.val
      ]_vars

\* 70 has been stored, and set(-5) has just been rejected
C1_Witness ==
    /\ ret.op = "set_temperature"
    /\ ret.arg = Deg(-5)
    /\ ret.exc = ""
    /\ ret.val = Frac(Deg(MaxTemperature), 1)
    /\ temperature = Deg(MaxTemperature)

---------------------------------------------------------------------------
(* Properties of the running system's target temperature (SpecTarget)      *)

\* C2: in every reachable state of the running system the target temperature is
\* within [0, 70], and so is every value the logger thread has read from it.
C2_TargetWithinRange ==
    /\ InRange(temperature)
    /\ InRange(current_target_temperature)
    /\ data_for_logging["target_temperature"] # EmptyData["target_temperature"]
          => \E t \in Deg(MinTemperature)..Deg(MaxTemperature) :
                data_for_logging["target_temperature"].v = Frac(t, 1)

\* the screen has just tried to go above 70 from 70, and the logger has read 70
C2_Witness ==
    /\ ret.op = "set_temperature"
    /\ ret.arg > Deg(MaxTemperature)
    /\ temperature = Deg(MaxTemperature)
    /\ current_target_temperature = Deg(MaxTemperature)
    /\ ticks >= 1

---------------------------------------------------------------------------
(* Properties of the CPU usage computation (SpecCpu)                       *)

\* get_cpu_usage() has just been called on two populated snapshots
UsageComputed ==
    /\ ret.op = "get_cpu_usage"
    /\ current_cpu_times # None
    /\ previous_cpu_times # None

Delta == get_delta_cpu_times(current_cpu_times, previous_cpu_times)

\* the value is (100 - d[3]*100/sum(d)) / 100 * 4 and lies in [0, CORE_COUNT]
UsageAsClaimed ==
    /\ ret.exc = ""
    /\ FracEq(ret.val, Frac(CORE_COUNT * (SumSeq(Delta) - Delta[4]), SumSeq(Delta)))
    /\ FracLeq(Frac(0, 1), ret.val)
    /\ FracLeq(ret.val, Frac(CORE_COUNT, 1))

\* C3 as stated: for all pairs of snapshots of 4 non-negative integers with a
\* positive total delta, get_cpu_usage returns (100 - d[3]*100/sum(d)) / 100 * 4,
\* a value in [0, CORE_COUNT].
C3_Original ==
    (UsageComputed /\ SumSeq(Delta) > 0) => UsageAsClaimed

\* C3 as amended: the same for all pairs in which no counter has decreased and
\* the total delta is positive; previous=[100,0,50,850], current=[110,0,60,880]
\* gives 1.6.
C3_CpuUsageRange ==
    /\ (UsageComputed /\ SumSeq(Delta) > 0 /\ \A i \in 1..4 : Delta[i] >= 0)
          => UsageAsClaimed
    /\ (UsageComputed /\ previous_cpu_times = ExamplePrevious
                      /\ current_cpu_times = ExampleCurrent)
          => FracEq(ret.val, Frac(16, 10))

\* the worked example has been computed
C3_Witness ==
    /\ UsageComputed
    /\ previous_cpu_times = ExamplePrevious
    /\ current_cpu_times = ExampleCurrent
    /\ ret.exc = ""
    /\ FracEq(ret.val, Frac(16, 10))

\* C4: get_cpu_usage() with only the current snapshot populated ends in an
\* error (Python's TypeError from len(None)), not in a number.
C4_InsufficientHistory ==
    (ret.op = "get_cpu_usage" /\ current_cpu_times # None /\ previous_cpu_times = None)
        => ret.exc = "TypeError"

\* the call has been made after a single update_cpu_stat_times()
C4_Witness ==
    /\ ret.op = "get_cpu_usage"
    /\ current_cpu_times # None
    /\ SumSeq(current_cpu_times) > 0
    /\ previous_cpu_times = None
    /\ ret.exc = "TypeError"

---------------------------------------------------------------------------
(* Properties of the logger thread in the running system (Spec)            *)

\* the logger of the specification's state machine
LoggerState ==
    CASE logPc = "run" -> "Idle"
      [] logPc \in {"gather", "record", "sleep"} -> "Logging"
      [] OTHER -> "Terminated"

\* C5: when two successive snapshots give a total delta of 0 the computation
\* does not crash its caller: the logging loop goes on with its next tick.
C5_ZeroDeltaRecoverable ==
    ~ /\ logPc = "dead"
      /\ logger_exception = "ZeroDivisionError"
      /\ previous_cpu_times # None
      /\ SumSeq(Delta) = 0
      /\ ~calculate_cpu_divisor_raises(readings, current_target_temperature)

HeaderText == SubSeq(HeaderLine, 1, Len(HeaderLine) - 1)
HeaderCount(content) ==
    LET lines == Lines(content)
    IN  Cardinality({i \in 1..Len(lines) : lines[i] = HeaderText})

\* C6: start_logging_loop writes the header iff the file is empty when it is
\* opened; so whatever the number of episodes, the header is there once when the
\* file started empty, and no more often than at the start when it did not.
C6_HeaderOnce ==
    /\ [](HeaderCount(Written) =
            HeaderCount(file0) + (IF file0 = <<>> /\ episodes > 0 THEN 1 ELSE 0))
    /\ [][episodes' # episodes =>
            /\ log_file = <<>> => file_handle_log'.buf = HeaderLine
            /\ log_file # <<>> => file_handle_log'.buf = <<>>]_vars

\* a second episode has started on a file that was empty at first, and has
\* appended a row
C6_Witness ==
    /\ file0 = <<>>
    /\ episodes = 2
    /\ logPc = "sleep"
    /\ HeaderCount(Written) = 1
    /\ Lines(Written)[1] = HeaderText

\* the rows of a content that are not the header
DataRows(content) == SelectSeq(Lines(content), LAMBDA l : l # HeaderText)

\* a row is 14 fields, each the text of the value of the column at its place
RowAsClaimed(row) ==
    LET fields == Fields(row)
    IN  /\ Len(fields) = 14
        /\ \A i \in 1..14 :
              /\ Len(fields[i]) = 1
              /\ fields[i][1].k = "val"
              /\ fields[i][1].c = order_of_columns[i]

\* C7: after N ticks of the logging loop on a file that was empty at first,
\* the file holds the header and then N rows, each of 14 separator-delimited
\* fields in the fixed order of the columns and ended by one newline.
C7_RowsPerTick ==
    (file0 = <<>> /\ episodes > 0) =>
        LET lines == Lines(Written)
            rows == SelectSeq(lines, LAMBDA l : l # HeaderText)
        IN  /\ Written[Len(Written)] = NL
            /\ lines[1] = HeaderText
            /\ Len(lines) = 1 + Len(rows)
            /\ Len(rows) = ticks + (IF logPc = "sleep" THEN 1 ELSE 0)
            /\ \A i \in 1..Len(rows) : RowAsClaimed(rows[i])

\* two ticks done and logging stopped: the file on disk is the header and two rows
C7_Witness ==
    /\ file0 = <<>>
    /\ ticks = 2
    /\ logPc = "run"
    /\ file_handle_log.state = "closed"
    /\ Len(Lines(log_file)) = 3
    /\ Len(DataRows(log_file)) = 2

\* the logger takes a value from the queue in this step
Consumes(v) ==
    /\ queue_start_logging # <<>>
    /\ Head(queue_start_logging) = v
    /\ queue_start_logging' = Tail(queue_start_logging)

\* C8: the logger goes Idle -> Logging only when it consumes True and
\* Logging -> Idle only when it consumes False; False consumed while Idle leaves
\* it Idle and True consumed while Logging leaves it Logging; nothing is
\* appended while it is Idle but the header of the episode that starts.
C8_LoggerTransitions ==
    [][ /\ (LoggerState = "Idle" /\ LoggerState' = "Logging") => Consumes(TRUE)
        /\ (LoggerState = "Logging" /\ LoggerState' = "Idle") => Consumes(FALSE)
        /\ (LoggerState = "Idle" /\ Consumes(FALSE)) => LoggerState' = "Idle"
        /\ (LoggerState = "Logging" /\ Consumes(TRUE)) => LoggerState' = "Logging"
        /\ (LoggerState = "Idle" /\ LoggerState' = "Idle") => Written' = Written
        /\ (LoggerState = "Idle" /\ LoggerState' # "Idle")
              => DataRows(Written') = DataRows(Written)
        /\ (LoggerState = "Idle" /\ LoggerState' = "Idle"
              /\ queue_start_logging' = queue_start_logging) => logVars' = logVars
      ]_vars

\* the logger is Idle again after an episode, and the next True waits in the queue
C8_Witness ==
    /\ LoggerState = "Idle"
    /\ episodes = 1
    /\ ticks >= 1
    /\ queue_start_logging = <<TRUE>>
    /\ file_handle_log.state = "closed"

\* C9: the handle is open for the whole of a Logging episode and closed
\* whenever the logger leaves Logging: at most one handle is open, and none
\* while the logger is not in Logging.
C9_HandleOpenIffLogging ==
    /\ open_handles <= 1
    /\ LoggerState = "Logging" => (open_handles = 1 /\ file_handle_log.state = "open")
    /\ LoggerState # "Logging" => (open_handles = 0 /\ file_handle_log.state # "open")

\* C10: once False is in the queue while the logger is Logging, the logger
\* appends at most one more record before it takes the False at the end of
\* its tick, and taking it closes the file and ends the episode with nothing
\* more appended.
C10_StopWithinOneTick ==
    /\ [](stop_records <= 1)
    /\ [][(LoggerState = "Logging" /\ Consumes(FALSE)) =>
            /\ logPc = "sleep"
            /\ LoggerState' = "Idle"
            /\ file_handle_log'.state = "closed"
            /\ open_handles' = 0
            /\ log_file' = Written
            /\ Written' = Written]_vars
    /\ [][(logPc = "sleep" /\ queue_start_logging = <<FALSE>> /\ logVars' # logVars)
            => Consumes(FALSE)]_vars

\* a record was appended while the False waited, and the logger has stopped
C10_Witness ==
    /\ stop_records = 1
    /\ queue_start_logging = <<>>
    /\ LoggerState = "Idle"
    /\ file_handle_log.state = "closed"
    /\ log_file = Written

---------------------------------------------------------------------------
(* Properties of the control channel (Spec)                                *)

\* the variables only the logger thread writes
LoggerOwned ==
    <<file_handle_log, open_handles, current_cpu_times, previous_cpu_times,
      current_target_temperature, readings, data_for_logging, logPc, logger_exception,
      ticks, episodes>>

\* C11: the queue never holds more than one value; only the Logging Start/Off
\* screen adds to it; the logger takes from it in run(), where it waits for a
\* value, and in the check that ends a tick of logging_loop, which does not wait.
C11_ChannelDiscipline ==
    /\ [](Len(queue_start_logging) <= 1)
    /\ [](LoggerRuns /\ logPc = "sleep" => ENABLED LoggerCheck)
    /\ [](LoggerRuns /\ logPc = "run" /\ queue_start_logging = <<>> => ~ENABLED LogRun)
    /\ [][ /\ Len(queue_start_logging') > Len(queue_start_logging)
              => /\ uiPc = "update_screen"
                 /\ Screen(screen_index) = "Logging Start/Off"
                 /\ LoggerOwned' = LoggerOwned
           /\ Len(queue_start_logging') < Len(queue_start_logging)
              => \/ logPc = "run"
                 \/ logPc = "sleep" /\ ticks' = ticks + 1
           /\ (logPc = "run" /\ queue_start_logging = <<>>) => LoggerOwned' = LoggerOwned
           /\ (logPc = "sleep" /\ queue_start_logging = <<>> /\ logPc' # logPc)
              => /\ logPc' = "gather"
                 /\ ticks' = ticks + 1
                 /\ queue_start_logging' = <<>>
         ]_vars

\* the queue is full while the logger sleeps in a tick, and the UI waits in put()
\* with a second value
C11_Witness ==
    /\ Len(queue_start_logging) = 1
    /\ logPc = "sleep"
    /\ uiPc = "update_screen"
    /\ Screen(screen_index) = "Logging Start/Off"
    /\ value_index # 0

---------------------------------------------------------------------------
(* Properties of the screens (SpecUi)                                      *)

\* the r in 0..7 with index = 8k + r
Residue(index) ==
    CHOOSE r \in 0..7 : \E k \in (-MaxScreen - 1)..(MaxScreen + 1) : index = 8 * k + r

\* the method of each screen, in the cyclic order of the screens
MethodInOrder ==
    <<"update_screen_for_temperature", "update_screen_for_pressure",
      "update_screen_for_humidity", "update_screen_for_cpu_temperature",
      "update_screen_for_cpu_usage", "update_screen_for_shutdown",
      "update_screen_for_set_target_temperature", "update_screen_for_manage_logging">>

\* C12: what update_screen renders depends on screen_index modulo 8 only and is
\* one of the 8 screens in their fixed cyclic order, for negative indexes too:
\* -1 renders what 7 renders, and 8 steps to the right or to the left, or a step
\* to the left and one to the right, come back to the same screen.
C12_ScreenModulo ==
    /\ rendered # NoRender =>
          rendered.method = MethodInOrder[Residue(rendered.index) + 1]
    /\ \A i \in ScreenWindow :
          /\ Screen(i) = screen_order[Residue(i) + 1]
          /\ (i + 8 \in ScreenWindow) => Screen(i + 8) = Screen(i)
          /\ LET jd == InitialJoystickDirection
                 l == update_screen_index(Event("left", "pressed"), jd, i, 0, TRUE)
                 r == update_screen_index(Event("right", "pressed"), jd, l[1], 0, TRUE)
             IN  l[1] # i /\ Screen(r[1]) = Screen(i)
    /\ Screen(-1) = Screen(7)

\* eight steps to the left from the first screen: the Temperature screen again
C12_Witness ==
    /\ rendered.index = -8
    /\ rendered.method = "update_screen_for_temperature"

\* a step of manage_joystick_events' loop that handles an event which is not a
\* release
HandlesPhysical(d) ==
    /\ uiPc = "events"
    /\ joystick_events # <<>>
    /\ joystick_events' = Tail(joystick_events)
    /\ Head(joystick_events).action # "released"
    /\ Head(joystick_events).direction = d

ValueMoves(by) == value_index' = value_index + by /\ screen_index' = screen_index
ScreenMoves(by) == screen_index' = screen_index + by /\ value_index' = 0

\* C13: when the rotation is 180 a physical 'up' is handled as the logical 'down'
\* (value_index - 1), a physical 'down' as the logical 'up' (value_index + 1), a
\* physical 'left' as the logical 'right' (next screen) and a physical 'right' as
\* the logical 'left' (previous screen); when the rotation is 0 every physical
\* direction is handled as the same logical direction.
C13_RotationSwapsDirections ==
    [][ /\ rotation = 180 =>
              /\ HandlesPhysical("up") => ValueMoves(-1)
              /\ HandlesPhysical("down") => ValueMoves(1)
              /\ HandlesPhysical("left") => ScreenMoves(1)
              /\ HandlesPhysical("right") => ScreenMoves(-1)
        /\ rotation = 0 =>
              /\ HandlesPhysical("up") => ValueMoves(1)
              /\ HandlesPhysical("down") => ValueMoves(-1)
              /\ HandlesPhysical("left") => ScreenMoves(-1)
              /\ HandlesPhysical("right") => ScreenMoves(1) ]_vars

\* upside down, a pressed physical 'up' has just lowered value_index from 0
C13_Witness ==
    /\ rotation = 180
    /\ uiPc = "events"
    /\ handled = <<Event("up", "pressed")>>
    /\ value_index = -1

\* C14: "sudo shutdown -h now" is invoked only on the Shutdown screen, by the
\* second blocking wait of update_screen_for_shutdown, when the two events that
\* call consumed, one after the other and with nothing between them, both had
\* the logical direction 'up'; no other step invokes it.
C14_ShutdownNeedsTwoUps ==
    [][ (shutdown_invoked' /\ ~shutdown_invoked) =>
            /\ uiPc = "shutdown_wait2"
            /\ Screen(screen_index) = "Shutdown"
            /\ rendered.method = "update_screen_for_shutdown"
            /\ Len(waited) = 1
            /\ Len(waited') = 2
            /\ waited'[1] = waited[1]
            /\ waited'[1].direction = joystick_direction.up
            /\ waited'[2].direction = joystick_direction.up
            /\ UNCHANGED <<navVars, joystick_direction>> ]_vars

\* turned to 90 degrees, where the logical 'up' is the physical 'right', two
\* events have confirmed and the command has run
C14_Witness ==
    /\ shutdown_invoked
    /\ uiPc = "halted"
    /\ rotation = 90
    /\ Len(waited) = 2
    /\ waited[1].direction = "right"
    /\ waited[2].direction = "right"

\* a blocking wait of update_screen_for_shutdown consumes an event
ShutdownWaitConsumes ==
    /\ uiPc \in {"shutdown_wait1", "shutdown_wait2"}
    /\ Len(waited') = Len(waited) + 1

\* C15: on the Shutdown screen a non-confirming direction consumed by a blocking
\* wait is applied to the navigation at once, logical 'left' as screen_index - 1
\* and logical 'right' as screen_index + 1, when it is the first event and when
\* it follows one 'up'; after one 'up' it does not invoke the shutdown.
C15_WaitAppliesDirection ==
    [][ ShutdownWaitConsumes =>
            LET e == waited'[Len(waited')]
            IN  /\ e.direction = joystick_direction.left =>
                        screen_index' = screen_index - 1
                /\ e.direction = joystick_direction.right =>
                        screen_index' = screen_index + 1
                /\ e.direction # joystick_direction.up =>
                        shutdown_invoked' = shutdown_invoked ]_vars

\* C16: while the UI is in the screen-off wait the main loop does not run, and an
\* event other than a push of the joystick ('middle') changes neither
\* screen_index, value_index, the target temperature nor the control channel and
\* leaves the UI in the wait; the wait ends only on a 'middle' event.
C16_ScreenOffIgnoresInput ==
    [][ uiPc = "screen_off" =>
            /\ uiPc' \in {"screen_off", "update_screen"}
            /\ uiPc' = "update_screen" =>
                    waited' # <<>> /\ waited'[1].direction = "middle"
            /\ (waited' # <<>> /\ waited'[1].direction # "middle") =>
                    /\ uiPc' = "screen_off"
                    /\ UNCHANGED <<screen_index, value_index, screen_title_shown,
                                   temperature, joystick_events, rendered>>
                    /\ Len(queue_start_logging') <= Len(queue_start_logging)
                    /\ ~ENABLED UiMain ]_vars

\* the screen is off and a pressed 'left' has been consumed by the wait
C16_Witness ==
    /\ uiPc = "screen_off"
    /\ waited = <<Event("left", "pressed")>>

\* C17: every step that changes screen_index, in the normal event loop and on
\* the Shutdown screen, sets value_index to 0 and screen_title_shown to false.
C17_ScreenChangeResets ==
    [][ screen_index' # screen_index =>
            value_index' = 0 /\ screen_title_shown' = FALSE ]_vars

\* update_screen draws a screen
Renders ==
    /\ uiPc = "update_screen"
    /\ uiPc' \notin {"update_screen", "crashed"}
    /\ rendered' # NoRender

\* C19: the title is shown once per screen entry: a render shows the title of
\* its screen exactly when screen_index has changed since the render before it
\* (or nothing has been rendered yet).
C19_TitleOncePerEntry ==
    [][ Renders => (rendered'.title <=> entered) ]_vars

\* the joystick map that belongs to a display rotation
MapOfRotation(r) ==
    CASE r = 0 -> [left |-> "left", right |-> "right", up |-> "up", down |-> "down"]
      [] r = 90 -> [left |-> "up", right |-> "down", up |-> "right", down |-> "left"]
      [] r = 180 -> [left |-> "right", right |-> "left", up |-> "down", down |-> "up"]
      [] r = 270 -> [left |-> "down", right |-> "up", up |-> "left", down |-> "right"]

\* C20: once a tick has read the acceleration, the rotation is the one the
\* priority table gives for the rounded (x, y) (x = -1: 90; else y = 1: 0; else
\* y = -1: 180; else 270), and the joystick map in force is the one of that
\* rotation.
C20_RotationFromSample ==
    acceleration # None =>
        LET x == Round0(acceleration[1])
            y == Round0(acceleration[2])
        IN  /\ x = -1 => rotation = 90
            /\ (x # -1 /\ y = 1) => rotation = 0
            /\ (x # -1 /\ y = -1) => rotation = 180
            /\ (x # -1 /\ y \notin {1, -1}) => rotation = 270
            /\ joystick_direction = MapOfRotation(rotation)

\* a sample with x = -1 and y = 1 at once: x wins, and the map is the one of 90
C20_Witness ==
    /\ acceleration = <<-10, 10>>
    /\ uiPc = "events"
    /\ rotation = 90
    /\ joystick_direction.up = "right"

\* the logger thread has ended because the log file could not be opened or
\* written
LogPersistenceFailed == logger_exception = "OSError"

\* C18: after a log persistence failure in the logger thread the UI loop neither
\* crashes nor stalls for good: an update of the Logging Start/Off screen, with
\* whatever up/down the user has entered, can always complete; and every draw
\* of that screen after the failure reports logging as disabled ('O').
C18_UiSurvivesLogFailure ==
    /\ [](LogPersistenceFailed => ProcessAlive)
    /\ []((/\ LogPersistenceFailed
           /\ uiPc = "update_screen"
           /\ Screen(screen_index) = "Logging Start/Off") => ENABLED UiManageLogging)
    /\ [][ (/\ LogPersistenceFailed
            /\ Renders
            /\ rendered'.method = "update_screen_for_manage_logging")
               => rendered'.glyph = "O" ]_vars

\* C21: the event loop takes the drained events one at a time from the front
\* of the list, each once; an event that is not a release and whose direction
\* is the logical left / right moves screen_index by exactly -1 / +1, one whose
\* direction is the logical up / down moves value_index by exactly +1 / -1,
\* below zero and above one as well, and leaves screen_index and
\* screen_title_shown as they were.
C21_EventsOnceInOrder ==
    [][ /\ joystick_events' # joystick_events =>
              \/ uiPc = "main_loop" /\ joystick_events = <<>>
              \/ /\ uiPc = "events" /\ joystick_events # <<>>
                 /\ joystick_events' = Tail(joystick_events)
                 /\ handled' = <<Head(joystick_events)>>
        /\ (uiPc = "events" /\ uiPc' = "update_screen") => joystick_events = <<>>
        /\ \A d \in Directions :
              HandlesPhysical(d) =>
                  /\ d = joystick_direction.left => screen_index' = screen_index - 1
                  /\ d = joystick_direction.right => screen_index' = screen_index + 1
                  /\ d = joystick_direction.up =>
                        /\ value_index' = value_index + 1
                        /\ UNCHANGED <<screen_index, screen_title_shown>>
                  /\ d = joystick_direction.down =>
                        /\ value_index' = value_index - 1
                        /\ UNCHANGED <<screen_index, screen_title_shown>> ]_vars

\* on its side (rotation 90, where the logical 'down' is the physical 'left'),
\* the third event of a list has taken value_index to -3
C21_Witness ==
    /\ rotation = 90
    /\ uiPc = "events"
    /\ joystick_events = <<>>
    /\ handled = <<Event("left", "pressed")>>
    /\ value_index = -3
    /\ rendered = NoRender

\* update_screen runs on the Set Target Temperature screen
RendersSetTarget ==
    /\ uiPc = "update_screen"
    /\ uiPc' # "update_screen"
    /\ Screen(screen_index) = "Set Target Temperature"

\* C22: a render of the Set Target Temperature screen with value_index = k # 0
\* sets the target to old + 0.5 * k when that lies in [0, 70] and leaves it
\* unchanged otherwise, and resets value_index to 0; a render with value_index = 0
\* changes neither; nothing else changes the target.
C22_SetTargetRender ==
    [][ /\ RendersSetTarget =>
              LET new == temperature + value_index
              IN  /\ value_index' = 0
                  /\ temperature' =
                        IF value_index # 0 /\ Deg(MinTemperature) <= new
                                          /\ new <= Deg(MaxTemperature)
                        THEN new ELSE temperature
        /\ temperature' # temperature => RendersSetTarget /\ value_index # 0 ]_vars

\* a held 'up' would have taken the target from 70 to 93 degrees: it is left at
\* 70 and value_index is back at 0
C22_Witness ==
    /\ rendered.method = "update_screen_for_set_target_temperature"
    /\ ret.op = "set_temperature"
    /\ ret.arg = Deg(MaxTemperature) + HeldRepeat
    /\ temperature = Deg(MaxTemperature)
    /\ value_index = 0

\* update_screen runs on the Logging Start/Off screen, to its end or to an
\* exception
RendersLogging ==
    /\ uiPc = "update_screen"
    /\ uiPc' # "update_screen"
    /\ Screen(screen_index) = "Logging Start/Off"

\* C23: every render of the Logging Start/Off screen puts true on the queue when
\* value_index > 0 and false when value_index < 0 (nothing when 0), resets
\* value_index to 0 and draws one glyph: '|' if the logger thread is alive and
\* the last signal sent was a start, 'O' in every other case, a dead or
\* never-started thread included.
C23_LoggingRender ==
    [][ RendersLogging =>
            /\ queue_start_logging' =
                  queue_start_logging \o
                      (IF value_index > 0 THEN <<TRUE>>
                       ELSE IF value_index < 0 THEN <<FALSE>> ELSE <<>>)
            /\ value_index' = 0
            /\ rendered'.glyph =
                  IF gatherer_thread = "alive" /\ gatherer_thread_logging_active'
                  THEN "|" ELSE "O" ]_vars

\* the value a row holds in the column at place i
RowValue(row, i) == Fields(row)[i][1].v

\* the divisor of a row is the one its own target temperature gives
RowConsistent(row) ==
    LET target == RowValue(row, 3)[1]
        sense == RowValue(row, 8)[1] + RowValue(row, 9)[1] + RowValue(row, 10)[1]
        cpu == RowValue(row, 11)[1]
    IN  RowValue(row, 2) = Frac(3 * cpu, sense - 3 * target)

\* C24: in every record the program writes, the logged target_temperature is
\* the value the record's divisor was computed with, however the UI thread
\* changes the shared TargetTemperature while the logger gathers and writes.
C24_TargetMatchesDivisor ==
    file0 = <<>> =>
        LET rows == DataRows(Written)
        IN  \A i \in 1..Len(rows) : RowConsistent(rows[i])

\* a record has been written from the logger's copy of the target while the
\* shared target has already been moved by the UI
C24_Witness ==
    /\ logPc = "sleep"
    /\ temperature # current_target_temperature
    /\ ret.op = "set_temperature"
    /\ LET rows == DataRows(Written)
       IN  /\ rows # <<>>
           /\ RowValue(rows[Len(rows)], 3) = Frac(current_target_temperature, 1)
           /\ RowConsistent(rows[Len(rows)])

\* the signal v waits in the queue and the specification follows the log file
\* no further
Unfollowed(v) == NewLines >= LiveMaxLines /\ queue_start_logging = <<v>>

\* C25: the queue is first-in first-out: a put appends the signal, the logger
\* takes the value at the front, nothing is dropped or replaced; and when from
\* some time on the last signal sent stays the same and the logger thread keeps
\* running, the logger ends up for good in the state of that signal: Logging
\* for true, Idle with the file closed for false.
C25_SettlesInLastSignal ==
    /\ [][ queue_start_logging' # queue_start_logging =>
              \/ /\ RendersLogging
                 /\ queue_start_logging' =
                       Append(queue_start_logging, gatherer_thread_logging_active')
              \/ /\ queue_start_logging # <<>>
                 /\ queue_start_logging' = Tail(queue_start_logging)
                 /\ UNCHANGED <<uiPc, gatherer_thread_logging_active>> ]_vars
    /\ (<>[](gatherer_thread_logging_active /\ gatherer_thread = "alive"))
          => <>[](LoggerState = "Logging" \/ Unfollowed(TRUE))
    /\ (<>[](~gatherer_thread_logging_active /\ gatherer_thread = "alive"))
          => <>[]((/\ LoggerState = "Idle"
                   /\ file_handle_log.state # "open"
                   /\ open_handles = 0) \/ Unfollowed(FALSE))

\* after a start and a stop the logger is Idle again with the file closed, the
\* queue empty and room left in the log
C25_Witness ==
    /\ ~gatherer_thread_logging_active
    /\ gatherer_thread = "alive"
    /\ episodes = 1
    /\ LoggerState = "Idle"
    /\ file_handle_log.state = "closed"
    /\ queue_start_logging = <<>>
    /\ NewLines < LiveMaxLines

\* C26: get_cpu_usage is never called while the previous snapshot is undefined:
\* the logger reaches the call, in a first and in a restarted episode, with
\* both snapshots read, every advance of its snapshots sets previous to what
\* current held and current to what /proc/stat holds, and the call of a CPU
\* Usage render in the UI does not fail on a missing snapshot either.
C26_UsageAfterTwoAdvances ==
    /\ [](logPc = "record" =>
             current_cpu_times # None /\ previous_cpu_times # None)
    /\ [](logger_exception # "TypeError" /\ ui_exception # "TypeError")
    /\ [](ret.op = "get_cpu_usage" => ret.exc # "TypeError")
    /\ [][ cpuVars' # cpuVars =>
              /\ previous_cpu_times' = current_cpu_times
              /\ current_cpu_times' = proc_stat' ]_vars

\* the logger has written a record in its second episode, and a render of the
\* CPU Usage screen has computed a usage
C26_Witness ==
    /\ episodes = 2
    /\ logPc = "sleep"
    /\ previous_cpu_times # None
    /\ rendered.method = "update_screen_for_cpu_usage"
    /\ ret.op = "get_cpu_usage"
    /\ ret.exc = ""

\* the UI is inside queue.put on the Logging Start/Off screen and the queue is
\* full
PutBlocked ==
    /\ ProcessAlive
    /\ uiPc = "update_screen"
    /\ Screen(screen_index) = "Logging Start/Off"
    /\ value_index # 0
    /\ put_blocks(queue_start_logging)

\* the logger's way to its next read of the queue lies within the part of the
\* log file the specification follows
RoomToRead ==
    (logPc = "gather" \/ (logPc = "run" /\ queue_start_logging = <<TRUE>>))
        => NewLines < LiveMaxLines

\* C27: while the logger thread is alive a put of the UI that finds the queue
\* full does not wait forever: the logger, scheduled fairly, takes the value
\* in the queue; in no such state are both threads unable to move.
C27_PutCompletes ==
    /\ [](PutBlocked /\ gatherer_thread = "alive" /\ RoomToRead
             => ENABLED LoggerNextLive)
    /\ (PutBlocked /\ gatherer_thread = "alive" /\ RoomToRead)
          ~> (~PutBlocked \/ gatherer_thread # "alive")

\* the UI waits in put with a stop for the logger, which is writing a record
\* while the start sent before still fills the queue
C27_Witness ==
    /\ PutBlocked
    /\ gatherer_thread = "alive"
    /\ value_index < 0
    /\ queue_start_logging = <<TRUE>>
    /\ logPc = "record"

\* a blocking wait (screen-off or Shutdown screen) returns a 'released' event
WaitReturnsRelease ==
    /\ uiPc \in {"screen_off", "shutdown_wait1", "shutdown_wait2"}
    /\ waited' # waited
    /\ waited'[Len(waited')].action = "released"

\* C28: an event whose action is 'released' has no effect in any UI state: in
\* the event loop it changes neither screen_index nor value_index, in the
\* screen-off wait it does not end the wait, and on the Shutdown screen it is
\* neither a confirmation nor a navigation.
C28_ReleaseHasNoEffect ==
    [][ /\ (/\ uiPc = "events" /\ joystick_events # <<>>
            /\ joystick_events' = Tail(joystick_events)
            /\ Head(joystick_events).action = "released")
               => UNCHANGED <<navVars, uiPc, shutdown_invoked>>
        /\ WaitReturnsRelease =>
               /\ UNCHANGED <<navVars, shutdown_invoked>>
               /\ uiPc = "screen_off" => uiPc' = "screen_off"
               /\ uiPc' # "shutdown_wait2" ]_vars

===========================================================================
